---- MODULE Spec2Model ----
(***************************************************************************)
(* Model of the CH9329 HID-over-serial codec and of the input translation  *)
(* of the KVM input component: genPacket, the keyboard handlers, the       *)
(* relative (pointer-lock) mouse handler and the absolute mouse binding.   *)
(***************************************************************************)
EXTENDS Integers, Sequences, FiniteSets, TLC

VARIABLES
    pkt,                    \* genPacket applied to drawn arguments: [cmd, data, done, res]
    serialPort,             \* serialPort.value is set
    writer,                 \* writer.value is set
    keyboardCompatibleMode, \* settingsStore.keyboardCompatibleMode
    cursorMode,             \* settingsStore.cursorMode
    eatKeys,                \* the module-level Set eatKeys
    focused,                \* useWindowFocus(): the window has focus
    relBound,               \* pointer locked: el.onmousemove/down/up are the relative handler
    wheelBound,             \* handleRelativeMouseWheel is a listener of document 'wheel'
    pressedBits, x, y,      \* closure state of the relative handler
    timer,                  \* closure state of the relative handler: "null" or "armed"
    burst,                  \* events handled since the relative timer was armed
    emittedBits,            \* buttons byte of the last frame the relative handler wrote, or -1
    absMouseRef,            \* absMouseRef.value: "null" or the bound element
    thr,                    \* state of writeSerialThrottled (useThrottleFn)
    macro,                  \* the text send or macro run in progress, and what it did
    lastOp                  \* the last handler run and the bytes it handed to the sink

vars == <<pkt, serialPort, writer, keyboardCompatibleMode, cursorMode, eatKeys, focused,
          relBound, wheelBound, pressedBits, x, y, timer, burst, emittedBits, absMouseRef,
          thr, macro, lastOp>>

pktVars == <<pkt>>
macroVars == <<macro>>
kbdVars == <<keyboardCompatibleMode, eatKeys, focused>>
serialVars == <<serialPort, writer>>
relVars == <<relBound, pressedBits, x, y, timer, burst, emittedBits>>
absVars == <<absMouseRef, thr>>

---------------------------------------------------------------------------
(* Bounds of the model *)

\* longest payload drawn for genPacket
MaxPayload == 3
\* largest motion delta of one pointer event
MaxDelta == 300
\* pointer events accepted inside one throttle window
MaxBurst == 2
\* modifier flags asserted by one keyboard event
MaxFlags == 2

---------------------------------------------------------------------------
(* CmdType: the command codes used for input emulation *)

CMD_SEND_KB_GENERAL_DATA == 2
CMD_SEND_KB_MEDIA_DATA == 3
CMD_SEND_MS_ABS_DATA == 4
CMD_SEND_MS_REL_DATA == 5

CmdType == {CMD_SEND_KB_GENERAL_DATA, CMD_SEND_KB_MEDIA_DATA,
            CMD_SEND_MS_ABS_DATA, CMD_SEND_MS_REL_DATA}

RECURSIVE SumSeq(_)
SumSeq(s) == IF s = <<>> THEN 0 ELSE Head(s) + SumSeq(Tail(s))

\* "sum[0] += v" on a Uint8Array of one element, for every v of ret in order
RECURSIVE Uint8Sum(_, _)
Uint8Sum(acc, s) ==
    IF s = <<>> THEN acc ELSE Uint8Sum((acc + Head(s)) % 256, Tail(s))

\* the first v of data with v < 0 || v > 0xff, as the for..of loop meets it
RECURSIVE FirstBad(_)
FirstBad(data) ==
    IF data = <<>> THEN 0
    ELSE IF Head(data) < 0 \/ Head(data) > 255 THEN Head(data)
    ELSE FirstBad(Tail(data))

genPacket_SumsPayloadOnly(cmd, data) ==
    IF \E i \in DOMAIN data : data[i] < 0 \/ data[i] > 255
    THEN [threw |-> TRUE, value |-> FirstBad(data), frame |-> <<>>]
    ELSE [threw |-> FALSE, value |-> 0,
          frame |-> <<87, 171, 0, cmd, Len(data)>> \o data \o <<Uint8Sum(0, data)>>]

genPacket_NoLowerCheck(cmd, data) ==
    IF \E i \in DOMAIN data : data[i] > 255
    THEN [threw |-> TRUE, value |-> FirstBad(data), frame |-> <<>>]
    ELSE LET ret == <<87, 171, 0, cmd, Len(data)>> \o data
         IN  [threw |-> FALSE, value |-> 0, frame |-> ret \o <<Uint8Sum(0, ret)>>]

\* genPacket(cmd, ...data): throws the offending value, or returns the frame
genPacket(cmd, data) ==
    IF \E i \in DOMAIN data : data[i] < 0 \/ data[i] > 255
    THEN [threw |-> TRUE, value |-> FirstBad(data), frame |-> <<>>]
    ELSE LET ret == <<87, 171, 0, cmd, Len(data)>> \o data
         IN  [threw |-> FALSE, value |-> 0, frame |-> ret \o <<Uint8Sum(0, ret)>>]

\* the bytes of a frame the translators build; they pass bytes in range
Packet(cmd, data) == genPacket(cmd, data).frame

---------------------------------------------------------------------------
(* genPacket on drawn arguments *)

PayloadBytes == {-1, 0, 1, 87, 200, 255, 256}

RECURSIVE SeqsUpTo(_, _)
SeqsUpTo(S, n) ==
    IF n = 0 THEN {<<>>}
    ELSE LET shorter == SeqsUpTo(S, n - 1)
         IN  shorter \cup {Append(s, e) : s \in {t \in shorter : Len(t) = n - 1}, e \in S}

\* the record of a handler run: what it was given, the state it met, what it wrote
NoOp == [op |-> "none", port |-> FALSE, key |-> "", hasEvent |-> FALSE, mods |-> {},
         compat |-> FALSE, eatBefore |-> {}, bits |-> 0, bitsBefore |-> 0,
         armedBefore |-> FALSE, ax |-> 0, ay |-> 0, calls |-> 0,
         ev |-> [w |-> 1, h |-> 1, ox |-> 0, oy |-> 0],
         wrote |-> FALSE, threw |-> FALSE, steps |-> <<>>, out |-> <<>>]

\* no text send or macro run yet
NoRun == [phase |-> "idle", entry |-> "none", text |-> <<>>, steps |-> <<>>, pc |-> 1,
          outages |-> 0, trace |-> <<>>]

InitRest ==
    /\ serialPort = FALSE
    /\ writer = FALSE
    /\ keyboardCompatibleMode = FALSE
    /\ cursorMode = "absolute"
    /\ eatKeys = {}
    /\ focused = TRUE
    /\ relBound = FALSE
    /\ wheelBound = FALSE
    /\ pressedBits = 0
    /\ x = 0
    /\ y = 0
    /\ timer = "null"
    /\ burst = 0
    /\ emittedBits = -1
    /\ absMouseRef = "null"
    /\ thr = [inWindow |-> FALSE, pending |-> FALSE, calls |-> 0, bits |-> 0, px |-> 0,
              py |-> 0, ev |-> [w |-> 1, h |-> 1, ox |-> 0, oy |-> 0]]
    /\ macro = NoRun
    /\ lastOp = NoOp

InitPacket ==
    /\ pkt \in [cmd : CmdType, data : SeqsUpTo(PayloadBytes, MaxPayload),
                done : {FALSE}, res : {genPacket(CMD_SEND_KB_GENERAL_DATA, <<>>)}]
    /\ InitRest

CallGenPacket ==
    /\ ~pkt.done
    /\ pkt' = [pkt EXCEPT !.done = TRUE, !.res = genPacket(pkt.cmd, pkt.data)]
    /\ UNCHANGED <<macroVars, serialVars, kbdVars, cursorMode, wheelBound, relVars, absVars,
                   lastOp>>

NextPacket == CallGenPacket

SpecPacket == InitPacket /\ [][NextPacket]_vars

\* C2: for every command type and in-range payload genPacket returns
\* [0x57, 0xAB, 0x00, cmd, n, p1..pn, c], payload in input order, c the sum of
\* all preceding bytes modulo 256.
C2_FrameLayout ==
    (pkt.done /\ \A i \in DOMAIN pkt.data : pkt.data[i] \in 0..255) =>
        LET f == pkt.res.frame
            n == Len(pkt.data)
        IN  /\ ~pkt.res.threw
            /\ Len(f) = n + 6
            /\ f[1] = 87 /\ f[2] = 171 /\ f[3] = 0
            /\ f[4] = pkt.cmd
            /\ f[5] = n
            /\ \A i \in 1..n : f[5 + i] = pkt.data[i]
            /\ f[n + 6] = SumSeq(SubSeq(f, 1, n + 5)) % 256

C2_Witness ==
    /\ pkt.done
    /\ pkt.cmd = CMD_SEND_MS_REL_DATA
    /\ pkt.data = <<200, 255, 87>>
    /\ pkt.res.frame = <<87, 171, 0, 5, 3, 200, 255, 87, 40>>

\* C3: genPacket throws, and returns no frame, whenever some payload byte is
\* below 0 or above 255, wherever it stands and whatever the other bytes are.
C3_ThrowsOnBadByte ==
    (pkt.done /\ \E i \in DOMAIN pkt.data : pkt.data[i] < 0 \/ pkt.data[i] > 255) =>
        /\ pkt.res.threw
        /\ pkt.res.frame = <<>>
        /\ pkt.res.value \notin 0..255

C3_Witness ==
    /\ pkt.done
    /\ pkt.data = <<0, 255, -1>>
    /\ pkt.res.threw
    /\ pkt.res.frame = <<>>

---------------------------------------------------------------------------
(* The serial session: initSerial and closeSerial *)

\* writeSerialThrottled before any call: no window open, no trailing call pending;
\* ev is the pointer event the pending arguments {pressedBits, x, y} came from,
\* calls the number of calls made inside the window
NoPointer == [w |-> 1, h |-> 1, ox |-> 0, oy |-> 0]
NullThrottle == [inWindow |-> FALSE, pending |-> FALSE, calls |-> 0, bits |-> 0, px |-> 0,
                 py |-> 0, ev |-> NoPointer]

\* writeSerial(value): nothing reaches the sink unless writer.value is set
writeSerial(value) == [wrote |-> writer, out |-> IF writer THEN value ELSE <<>>]

\* releaseAbsoluteMouse(): clears absMouseRef and the element's handlers; the
\* wheel listener goes only when an element was bound
releaseAbsoluteMouse ==
    /\ absMouseRef' = "null"
    /\ wheelBound' = IF absMouseRef = "null" THEN wheelBound ELSE FALSE

\* initSerial, the port granted and opened: reader, writer and serialPort are set
initSerial ==
    /\ ~serialPort
    /\ writer' = TRUE
    /\ serialPort' = TRUE
    /\ lastOp' = [NoOp EXCEPT !.op = "initSerial"]
    /\ UNCHANGED <<pktVars, macroVars, kbdVars, cursorMode, wheelBound, relVars, absVars>>

\* closeSerial, from the Close Serial button or the baud-rate watcher, both of
\* which need serialPort set
closeSerial ==
    /\ serialPort
    /\ writer' = FALSE
    /\ serialPort' = FALSE
    /\ releaseAbsoluteMouse
    /\ lastOp' = [NoOp EXCEPT !.op = "closeSerial", !.port = serialPort]
    /\ UNCHANGED <<pktVars, macroVars, kbdVars, cursorMode, relVars, thr>>

---------------------------------------------------------------------------
(* KeyTable and the keyboard handlers *)

ModifierNames == {"Shift", "Control", "Alt", "Meta"}

\* ASCII_KEYS: key -> <<hidCode, shiftRequired>>, the entries the model types
\* or sends as key combinations
ASCII_KEYS ==
    [k \in {"a", "A", "Escape", "b", "d", "e", "h", "i", "n", "y", "|",
            "Delete", "Tab", "F1", "F4"} |->
        CASE k = "a" -> <<4, FALSE>>
          [] k = "A" -> <<4, TRUE>>
          [] k = "Escape" -> <<41, FALSE>>
          [] k = "Delete" -> <<76, FALSE>>
          [] k = "Tab" -> <<43, FALSE>>
          [] k = "F1" -> <<58, FALSE>>
          [] k = "F4" -> <<61, FALSE>>
          [] k = "b" -> <<5, FALSE>>
          [] k = "d" -> <<7, FALSE>>
          [] k = "e" -> <<8, FALSE>>
          [] k = "h" -> <<11, FALSE>>
          [] k = "i" -> <<12, FALSE>>
          [] k = "n" -> <<17, FALSE>>
          [] k = "y" -> <<28, FALSE>>
          [] k = "|" -> <<49, TRUE>>]

\* event.key values drawn: the modifiers, three table keys, and one key the
\* table lacks
Keys == ModifierNames \cup {"a", "A", "Escape"} \cup {"Dead"}

\* a keyboard event: its key and the names of the modifier flags it asserts
\* (shiftKey, ctrlKey, altKey, metaKey); a modifier's own keydown asserts its flag
FlagSets == {m \in SUBSET ModifierNames : Cardinality(m) <= MaxFlags}
KeydownEvents ==
    {e \in [key : Keys, mods : FlagSets] : e.key \in ModifierNames => e.key \in e.mods}
KeyupEvents ==
    {e \in [key : Keys, mods : FlagSets] : e.key \in ModifierNames => e.key \notin e.mods}

\* controlBits |= ... for each asserted flag
ControlBitsOf(names) ==
    (IF "Control" \in names THEN 1 ELSE 0) + (IF "Shift" \in names THEN 2 ELSE 0)
        + (IF "Alt" \in names THEN 4 ELSE 0) + (IF "Meta" \in names THEN 8 ELSE 0)

ReleasePacket == Packet(CMD_SEND_KB_GENERAL_DATA, <<0, 0, 0, 0, 0, 0, 0, 0>>)

KeyModifiers_EventShiftOnly(shift, mods) == mods

\* the modifier names a table key asserts: "if (shift || event.shiftKey)", then
\* ctrlKey, altKey, metaKey; each is OR'ed into controlBits and added to eatKeys
KeyModifiers(shift, mods) == IF shift THEN mods \cup {"Shift"} ELSE mods

\* handleKeydown(event): the new eatKeys, the buffer handed to writeSerial (<<>>
\* when it is not called) and whether unlock() is called
handleKeydownResult(e) ==
    LET none == [eat |-> eatKeys, call |-> FALSE, value |-> <<>>, unlock |-> FALSE]
    IN  IF ~serialPort THEN none
        ELSE IF "Shift" \in e.mods /\ e.key = "Escape" THEN [none EXCEPT !.unlock = TRUE]
        ELSE IF keyboardCompatibleMode /\ e.key \in eatKeys
             THEN [none EXCEPT !.eat = eatKeys \ {e.key}]
        ELSE IF e.key \in ModifierNames
             THEN [eat |-> eatKeys \cup e.mods, call |-> TRUE, unlock |-> FALSE,
                   value |-> Packet(CMD_SEND_KB_GENERAL_DATA,
                                    <<ControlBitsOf(e.mods), 0, 0, 0, 0, 0, 0, 0>>)]
        ELSE IF e.key \notin DOMAIN ASCII_KEYS THEN none
        ELSE LET hidCode == ASCII_KEYS[e.key][1]
                 names == KeyModifiers(ASCII_KEYS[e.key][2], e.mods)
                 arr == Packet(CMD_SEND_KB_GENERAL_DATA,
                               <<ControlBitsOf(names), 0, hidCode, 0, 0, 0, 0, 0>>)
             IN  [eat |-> eatKeys \cup names, call |-> TRUE, unlock |-> FALSE,
                  value |-> IF keyboardCompatibleMode THEN arr \o ReleasePacket ELSE arr]

handleKeydown ==
    \E e \in KeydownEvents :
        LET r == handleKeydownResult(e)
            w == writeSerial(r.value)
        IN  /\ focused
            /\ eatKeys' = r.eat
            \* unlock(): the pointer lock ends and the pointerlockchange handler
            \* takes the relative handlers and the wheel listener away
            /\ relBound' = IF r.unlock THEN FALSE ELSE relBound
            /\ wheelBound' = IF r.unlock /\ relBound THEN FALSE ELSE wheelBound
            /\ lastOp' = [NoOp EXCEPT !.op = "keydown", !.port = serialPort, !.key = e.key,
                            !.hasEvent = TRUE, !.mods = e.mods,
                            !.compat = keyboardCompatibleMode, !.eatBefore = eatKeys,
                            !.wrote = r.call /\ w.wrote,
                            !.out = IF r.call THEN w.out ELSE <<>>]
            /\ UNCHANGED <<pktVars, macroVars, serialVars, keyboardCompatibleMode, focused, cursorMode,
                           pressedBits, x, y, timer, burst, emittedBits, absVars>>

handleKeyupResult_EatsInEveryMode(hasEvent, key) ==
    IF ~serialPort \/ eatKeys # {}
    THEN [call |-> FALSE, value |-> <<>>]
    ELSE [call |-> TRUE, value |-> ReleasePacket]

\* handleKeyup(event?): the buffer handed to writeSerial
handleKeyupResult(hasEvent, key) ==
    IF ~serialPort
    THEN [call |-> FALSE, value |-> <<>>]
    ELSE [call |-> TRUE, value |-> ReleasePacket]

handleKeyup ==
    \E e \in KeyupEvents :
        LET r == handleKeyupResult(TRUE, e.key)
            w == writeSerial(r.value)
        IN  /\ focused
            /\ lastOp' = [NoOp EXCEPT !.op = "keyup", !.port = serialPort, !.key = e.key,
                            !.hasEvent = TRUE, !.mods = e.mods,
                            !.compat = keyboardCompatibleMode, !.eatBefore = eatKeys,
                            !.wrote = r.call /\ w.wrote,
                            !.out = IF r.call THEN w.out ELSE <<>>]
            /\ UNCHANGED <<pktVars, macroVars, serialVars, kbdVars, cursorMode, wheelBound, relVars,
                           absVars>>

\* watch(focused): the window loses focus and handleKeyup() runs with no event
focusLost ==
    LET r == handleKeyupResult(FALSE, "")
        w == writeSerial(r.value)
    IN  /\ focused
        /\ focused' = FALSE
        /\ lastOp' = [NoOp EXCEPT !.op = "blur", !.port = serialPort,
                        !.compat = keyboardCompatibleMode, !.eatBefore = eatKeys,
                        !.wrote = r.call /\ w.wrote,
                        !.out = IF r.call THEN w.out ELSE <<>>]
        /\ UNCHANGED <<pktVars, macroVars, serialVars, keyboardCompatibleMode, eatKeys, cursorMode,
                       wheelBound, relVars, absVars>>

\* the window gains focus: the watcher does nothing
focusGained ==
    /\ ~focused
    /\ focused' = TRUE
    /\ lastOp' = [NoOp EXCEPT !.op = "focus"]
    /\ UNCHANGED <<pktVars, macroVars, serialVars, keyboardCompatibleMode, eatKeys, cursorMode,
                   wheelBound, relVars, absVars>>

\* the settings checkbox bound to keyboardCompatibleMode
setCompatibleMode ==
    /\ keyboardCompatibleMode' = ~keyboardCompatibleMode
    /\ lastOp' = [NoOp EXCEPT !.op = "setCompatibleMode"]
    /\ UNCHANGED <<pktVars, macroVars, serialVars, eatKeys, focused, cursorMode, wheelBound, relVars,
                   absVars>>

InitSession ==
    /\ pkt = [cmd |-> CMD_SEND_KB_GENERAL_DATA, data |-> <<>>, done |-> TRUE,
              res |-> genPacket(CMD_SEND_KB_GENERAL_DATA, <<>>)]
    /\ InitRest

NextKbd ==
    \/ initSerial
    \/ closeSerial
    \/ setCompatibleMode
    \/ handleKeydown
    \/ handleKeyup
    \/ focusLost
    \/ focusGained

SpecKbd == InitSession /\ [][NextKbd]_vars

---------------------------------------------------------------------------
(* Mouse binding: autoEnable, pointer lock, cursor mode *)

\* bindAbsoluteMouse(absEl): the element is bound with a fresh throttled writer
bindAbsoluteMouse ==
    /\ absMouseRef' = "el"
    /\ wheelBound' = TRUE
    /\ thr' = NullThrottle

\* the pointerlockchange listener with a pointer-lock element: a fresh closure
\* [pressedBits, x, y] = [0, 0, 0], timer = null, and the handlers attached
pointerLockEntered ==
    /\ relBound' = TRUE
    /\ wheelBound' = TRUE
    /\ pressedBits' = 0
    /\ x' = 0
    /\ y' = 0
    /\ timer' = "null"
    /\ burst' = 0
    /\ UNCHANGED emittedBits

\* autoEnable(el) with the port connected (without it, it calls initSerial):
\* lock the pointer (relative mode; the lock is taken when the pointer is not
\* locked yet) or bind the element (absolute mode, nothing bound yet). Binding
\* again is an operator action: a call left pending by the throttle of an
\* earlier binding (at most 16 ms) has run by then.
autoEnable ==
    /\ serialPort
    /\ IF cursorMode = "relative"
       THEN /\ ~relBound
            /\ pointerLockEntered
            /\ UNCHANGED absVars
       ELSE /\ absMouseRef = "null"
            /\ ~thr.pending
            /\ bindAbsoluteMouse
            /\ UNCHANGED relVars
    /\ lastOp' = [NoOp EXCEPT !.op = "autoEnable", !.port = serialPort]
    /\ UNCHANGED <<pktVars, macroVars, serialVars, kbdVars, cursorMode>>

\* the pointerlockchange listener without a pointer-lock element (Esc, or
\* unlock()): the handlers and the wheel listener are removed
pointerLockExited ==
    /\ relBound
    /\ relBound' = FALSE
    /\ wheelBound' = FALSE
    /\ lastOp' = [NoOp EXCEPT !.op = "pointerLockExited"]
    /\ UNCHANGED <<pktVars, macroVars, serialVars, kbdVars, cursorMode, pressedBits, x, y, timer,
                   burst, emittedBits, absVars>>

\* the settings select bound to cursorMode, and the watcher on it
setCursorMode ==
    /\ cursorMode' = IF cursorMode = "relative" THEN "absolute" ELSE "relative"
    /\ IF cursorMode' = "relative"
       THEN releaseAbsoluteMouse
       ELSE UNCHANGED <<absMouseRef, wheelBound>>
    /\ lastOp' = [NoOp EXCEPT !.op = "setCursorMode"]
    /\ UNCHANGED <<pktVars, macroVars, serialVars, kbdVars, relVars, thr>>

---------------------------------------------------------------------------
(* Relative mouse mode *)

Buttons == {0, 1}
DeltasX == {-MaxDelta, -1, 0, 127, MaxDelta}
DeltasY == {-5, 0, 200}
WheelDeltas == {-100, 0, 100}

Max(a, b) == IF a > b THEN a ELSE b
Min(a, b) == IF a < b THEN a ELSE b

i8clamp_Int8Range(v) == Max(-128, Min(v, 127))

\* i8clamp: Math.max(-0x7f, Math.min(v, 0x7f))
i8clamp(v) == Max(-127, Min(v, 127))

\* Math.round on the integer displacements the model draws
Round(v) == v

\* "if (pX < 0) pX = (0xff + pX) & 0xff"
RelByte(p) == IF p < 0 THEN (255 + p) % 256 ELSE p

RelFlush_FirstFrameOnly(bits, ax, ay) ==
    [steps |-> <<(<<i8clamp(ax), i8clamp(ay)>>)>>,
     value |-> Packet(CMD_SEND_MS_REL_DATA,
                      <<1, bits, RelByte(i8clamp(ax)), RelByte(i8clamp(ay)), 0>>)]

\* the do-while loop of the relative handler on the rounded accumulator: the
\* clamped steps taken and the packets pushed to value
RECURSIVE RelFlush(_, _, _)
RelFlush(bits, ax, ay) ==
    LET pX == i8clamp(ax)
        pY == i8clamp(ay)
        packet == Packet(CMD_SEND_MS_REL_DATA, <<1, bits, RelByte(pX), RelByte(pY), 0>>)
        rest == IF ax - pX # 0 \/ ay - pY # 0
                THEN RelFlush(bits, ax - pX, ay - pY)
                ELSE [steps |-> <<>>, value |-> <<>>]
    IN  [steps |-> <<(<<pX, pY>>)>> \o rest.steps, value |-> packet \o rest.value]

ForcesFlush_RangeOnly(buttons, ax, ay) == i8clamp(ax) # ax \/ i8clamp(ay) # ay

ForcesFlush_Always(buttons, ax, ay) == TRUE

\* "pressedBits != event.buttons || i8clamp(x) !== x || i8clamp(y) !== y"
ForcesFlush(buttons, ax, ay) ==
    pressedBits # buttons \/ i8clamp(ax) # ax \/ i8clamp(ay) # ay

\* el.onmousemove = el.onmousedown = el.onmouseup
relativeMouseEvent ==
    \E mx \in DeltasX, my \in DeltasY, buttons \in Buttons :
        LET ax == x + mx
            ay == y + my
            forced == ForcesFlush(buttons, ax, ay)
            throttled == timer # "null" /\ ~forced
            f == RelFlush(buttons, Round(ax), Round(ay))
            op == [NoOp EXCEPT !.op = "relmouse", !.port = serialPort, !.bits = buttons,
                     !.bitsBefore = pressedBits, !.armedBefore = (timer = "armed"),
                     !.ax = ax, !.ay = ay]
        IN  /\ relBound
            /\ throttled => burst < MaxBurst
            /\ pressedBits' = buttons
            /\ IF throttled
               THEN /\ x' = ax
                    /\ y' = ay
                    /\ timer' = timer
                    /\ burst' = burst + 1
                    /\ UNCHANGED emittedBits
                    /\ lastOp' = op
               ELSE /\ x' = 0
                    /\ y' = 0
                    /\ burst' = 0
                    \* writer.value.write(...) on a null writer throws before the
                    \* timer is set
                    /\ timer' = IF writer THEN "armed" ELSE "null"
                    /\ emittedBits' = IF writer THEN buttons ELSE emittedBits
                    /\ lastOp' = [op EXCEPT !.wrote = writer, !.threw = ~writer,
                                    !.steps = f.steps,
                                    !.out = IF writer THEN f.value ELSE <<>>]
            /\ UNCHANGED <<pktVars, macroVars, serialVars, kbdVars, cursorMode, relBound, wheelBound,
                           absVars>>

\* setTimeout(() => (timer = null), 16)
relativeTimerFired ==
    /\ relBound
    /\ timer = "armed"
    /\ timer' = "null"
    /\ lastOp' = [NoOp EXCEPT !.op = "relativeTimerFired"]
    /\ UNCHANGED <<pktVars, macroVars, serialVars, kbdVars, cursorMode, relBound, wheelBound,
                   pressedBits, x, y, burst, emittedBits, absVars>>

WheelByte_DownFromZero(deltaY) == IF deltaY >= 0 THEN 253 ELSE 2

\* "if (event.deltaY > 0)": 0xfd, else 0x02
WheelByte(deltaY) == IF deltaY > 0 THEN 253 ELSE 2

\* handleRelativeMouseWheel(event)
handleRelativeMouseWheel ==
    \E deltaY \in WheelDeltas :
        LET value == Packet(CMD_SEND_MS_REL_DATA,
                            <<1, 0, 0, 0, WheelByte(deltaY)>>)
            w == writeSerial(value)
        IN  /\ wheelBound
            /\ lastOp' = [NoOp EXCEPT !.op = "wheel", !.port = serialPort, !.ay = deltaY,
                            !.wrote = w.wrote, !.out = w.out]
            /\ UNCHANGED <<pktVars, macroVars, serialVars, kbdVars, cursorMode, wheelBound, relVars,
                           absVars>>

NextRel ==
    \/ initSerial
    \/ closeSerial
    \/ setCursorMode
    \/ autoEnable
    \/ pointerLockExited
    \/ relativeMouseEvent
    \/ relativeTimerFired
    \/ handleRelativeMouseWheel

SpecRel == InitSession /\ [][NextRel]_vars

---------------------------------------------------------------------------
(* Absolute mouse mode *)

\* pointer events inside the bound element: its bounding box (w, h) and the
\* offset (ox, oy) of the pointer from its top-left corner
PointerEvents ==
    {[w |-> 1000, h |-> 500, ox |-> a, oy |-> b] : a \in {0, 500, 999}, b \in {250, 499}}
        \cup {[w |-> 3, h |-> 7, ox |-> a, oy |-> b] : a \in {1, 2}, b \in {0, 6}}

decomposeHexToBytes_HighFirst(hexNumber) ==
    <<(hexNumber \div 256) % 256, hexNumber % 256>>

\* decomposeHexToBytes: [hexNumber & 0xff, (hexNumber >> 8) & 0xff]
decomposeHexToBytes(hexNumber) ==
    <<hexNumber % 256, (hexNumber \div 256) % 256>>

\* Math.floor((offset * 4096) / size)
AbsCoord(offset, size) == (offset * 4096) \div size

\* the function given to useThrottleFn: one absolute-mouse packet to writeSerial
AbsWrite(bits, px, py) ==
    writeSerial(Packet(CMD_SEND_MS_ABS_DATA,
                       <<2, bits>> \o decomposeHexToBytes(px) \o decomposeHexToBytes(py)
                           \o <<0>>))

throttledCall_FirstPendingWins(t, args) ==
    IF ~t.inWindow
    THEN [run |-> TRUE, thr |-> [NullThrottle EXCEPT !.inWindow = TRUE]]
    ELSE IF t.pending
         THEN [run |-> FALSE, thr |-> [t EXCEPT !.calls = @ + 1]]
         ELSE [run |-> FALSE,
               thr |-> [t EXCEPT !.pending = TRUE, !.calls = @ + 1, !.bits = args.bits,
                                 !.px = args.px, !.py = args.py, !.ev = args.ev]]

\* a call of writeSerialThrottled = useThrottleFn(fn, 16, true), leading and
\* trailing: more than 16 ms after the last run the call runs at once and opens
\* a window; inside the window it replaces the call pending for the window's end
throttledCall(t, args) ==
    IF ~t.inWindow
    THEN [run |-> TRUE, thr |-> [NullThrottle EXCEPT !.inWindow = TRUE]]
    ELSE [run |-> FALSE,
          thr |-> [t EXCEPT !.pending = TRUE, !.calls = @ + 1, !.bits = args.bits,
                            !.px = args.px, !.py = args.py, !.ev = args.ev]]

\* absEl.onmousemove = absEl.onmousedown = absEl.onmouseup
absoluteMouseEvent ==
    \E e \in PointerEvents, buttons \in Buttons :
        LET px == AbsCoord(e.ox, e.w)
            py == AbsCoord(e.oy, e.h)
            c == throttledCall(thr, [bits |-> buttons, px |-> px, py |-> py, ev |-> e])
            w == AbsWrite(buttons, px, py)
            \* bitsBefore: event.buttons of the event handled just before this one
            op == [NoOp EXCEPT !.op = "absmouse", !.port = serialPort, !.bits = buttons,
                     !.bitsBefore = IF lastOp.op = "absmouse" THEN lastOp.bits ELSE buttons,
                     !.ev = e, !.armedBefore = thr.inWindow]
        IN  /\ absMouseRef = "el"
            /\ thr.inWindow => thr.calls < MaxBurst
            /\ thr' = c.thr
            /\ lastOp' = IF c.run THEN [op EXCEPT !.wrote = w.wrote, !.out = w.out] ELSE op
            /\ UNCHANGED <<pktVars, macroVars, serialVars, kbdVars, cursorMode, wheelBound, relVars,
                           absMouseRef>>

\* the trailing timer of writeSerialThrottled: the pending call runs and a new
\* window opens
absoluteTrailingCall ==
    LET w == AbsWrite(thr.bits, thr.px, thr.py)
    IN  /\ thr.pending
        /\ thr' = [NullThrottle EXCEPT !.inWindow = TRUE]
        /\ lastOp' = [NoOp EXCEPT !.op = "abstrailing", !.port = serialPort,
                        !.bits = thr.bits, !.ev = thr.ev, !.calls = thr.calls,
                        !.armedBefore = thr.inWindow,
                        !.wrote = w.wrote, !.out = w.out]
        /\ UNCHANGED <<pktVars, macroVars, serialVars, kbdVars, cursorMode, wheelBound, relVars,
                       absMouseRef>>

\* more than 16 ms pass since the last call ran; a pending call is due 16 ms
\* after that run, so it has run (and opened its own window) before
absoluteWindowElapsed ==
    /\ thr.inWindow
    /\ ~thr.pending
    /\ thr' = [thr EXCEPT !.inWindow = FALSE]
    /\ lastOp' = [NoOp EXCEPT !.op = "absoluteWindowElapsed"]
    /\ UNCHANGED <<pktVars, macroVars, serialVars, kbdVars, cursorMode, wheelBound, relVars,
                   absMouseRef>>

NextAbs ==
    \/ initSerial
    \/ closeSerial
    \/ setCursorMode
    \/ autoEnable
    \/ pointerLockExited
    \/ absoluteMouseEvent
    \/ absoluteTrailingCall
    \/ absoluteWindowElapsed
    \/ handleRelativeMouseWheel

SpecAbs == InitSession /\ [][NextAbs]_vars

---------------------------------------------------------------------------
(* Reading a written buffer back as frames *)

\* the frames of a buffer: command, payload, and whether header, length and
\* checksum are those of the wire format
RECURSIVE ParseFrames(_)
ParseFrames(buf) ==
    IF buf = <<>> THEN <<>>
    ELSE IF Len(buf) < 6 \/ buf[5] < 0 \/ Len(buf) < buf[5] + 6
         THEN <<[cmd |-> -1, payload |-> buf, ok |-> FALSE]>>
    ELSE LET n == buf[5]
         IN  <<[cmd |-> buf[4], payload |-> SubSeq(buf, 6, n + 5),
                ok |-> /\ buf[1] = 87 /\ buf[2] = 171 /\ buf[3] = 0
                       /\ buf[n + 6] = SumSeq(SubSeq(buf, 1, n + 5)) % 256]>>
             \o ParseFrames(SubSeq(buf, n + 7, Len(buf)))

KbFrame(controlBits, hidCode) ==
    [cmd |-> 2, payload |-> <<controlBits, 0, hidCode, 0, 0, 0, 0, 0>>, ok |-> TRUE]

\* ControlBits of the data model: Ctrl 0b0001, Shift 0b0010, Alt 0b0100, Meta 0b1000
BitOf(name) == CASE name = "Control" -> 1 [] name = "Shift" -> 2
                 [] name = "Alt" -> 4 [] name = "Meta" -> 8
RECURSIVE MaskOf(_)
MaskOf(names) ==
    IF names = {} THEN 0
    ELSE LET n == CHOOSE m \in names : TRUE IN BitOf(n) + MaskOf(names \ {n})

---------------------------------------------------------------------------
(* Keyboard claims, under SpecKbd *)

\* C4: in compatible mode a key-up of a key whose name is in the suppression
\* set removes the name and emits no frame, and a key-up of any other key emits
\* one all-zero release frame (so key-down Shift then key-up Shift gives one
\* frame at the key-down and none at the key-up).
C4_KeyupSuppressedInCompatibleMode ==
    (lastOp.op = "keyup" /\ lastOp.port /\ lastOp.compat) =>
        IF lastOp.key \in lastOp.eatBefore
        THEN lastOp.out = <<>> /\ eatKeys = lastOp.eatBefore \ {lastOp.key}
        ELSE ParseFrames(lastOp.out) = <<KbFrame(0, 0)>> /\ eatKeys = lastOp.eatBefore

\* C5: every key-down of a bare modifier key, in either mode and after any
\* key events, emits exactly one general-keyboard frame with hidCode 0 and the
\* ControlBits of the modifiers asserted on the event, and adds each asserted
\* modifier name to the suppression set.
C5_BareModifierKeydown ==
    (lastOp.op = "keydown" /\ lastOp.port /\ lastOp.key \in ModifierNames) =>
        /\ ParseFrames(lastOp.out) = <<KbFrame(MaskOf(lastOp.mods), 0)>>
        /\ lastOp.mods \subseteq eatKeys

\* C6: a key-down of a non-modifier key of the character table (port
\* connected, not Shift+Escape) emits one general-keyboard frame
\* [ControlBits, 0, hidCode, 0,0,0,0,0] with Shift set iff the table entry
\* requires shift or the event has shift, OR'ed with the event's Ctrl, Alt and
\* Meta; in compatible mode exactly one all-zero release frame follows in the
\* same write, in normal mode none.
C6_TableKeydown ==
    (/\ lastOp.op = "keydown" /\ lastOp.port
     /\ lastOp.key \in DOMAIN ASCII_KEYS
     /\ ~("Shift" \in lastOp.mods /\ lastOp.key = "Escape")) =>
        LET entry == ASCII_KEYS[lastOp.key]
            names == (lastOp.mods \ {"Shift"})
                        \cup (IF entry[2] \/ "Shift" \in lastOp.mods THEN {"Shift"} ELSE {})
            press == KbFrame(MaskOf(names), entry[1])
        IN  /\ lastOp.wrote
            /\ ParseFrames(lastOp.out) =
                  IF lastOp.compat THEN <<press, KbFrame(0, 0)>> ELSE <<press>>

C6_Witness ==
    /\ lastOp.op = "keydown" /\ lastOp.port /\ lastOp.compat
    /\ lastOp.key = "A" /\ lastOp.mods = {"Control"}
    /\ "Shift" \in lastOp.eatBefore
    /\ ParseFrames(lastOp.out) = <<KbFrame(3, 4), KbFrame(0, 0)>>

\* C7: while the port is connected, every key-up in normal mode and every
\* loss of window focus in either mode emits exactly one all-zero
\* general-keyboard frame, whatever key was released and whatever the
\* suppression set holds.
C7_ReleaseFrame ==
    (/\ lastOp.port
     /\ \/ lastOp.op = "keyup" /\ ~lastOp.compat
        \/ lastOp.op = "blur") =>
        /\ lastOp.wrote
        /\ lastOp.out = <<87, 171, 0, 2, 8, 0, 0, 0, 0, 0, 0, 0, 0, 12>>

C7_Witness ==
    /\ lastOp.port
    /\ lastOp.op = "blur"
    /\ lastOp.compat
    /\ lastOp.eatBefore = {"Shift", "Alt"}
    /\ lastOp.out = <<87, 171, 0, 2, 8, 0, 0, 0, 0, 0, 0, 0, 0, 12>>

---------------------------------------------------------------------------
(* Relative mouse claims, under SpecRel *)

\* a payload byte read back as a signed 8-bit two's-complement value
Int8(b) == IF b >= 128 THEN b - 256 ELSE b

RECURSIVE SumAxis(_, _)
SumAxis(frames, i) ==
    IF frames = <<>> THEN 0
    ELSE Int8(Head(frames).payload[i]) + SumAxis(Tail(frames), i)

RECURSIVE SumSteps(_, _)
SumSteps(steps, i) ==
    IF steps = <<>> THEN 0 ELSE Head(steps)[i] + SumSteps(Tail(steps), i)

Abs(v) == IF v < 0 THEN -v ELSE v
CeilDiv(a, b) == (a + b - 1) \div b

\* C1: one flush of an accumulated integer displacement (dx, dy) emits
\* relative-mouse frames whose dx and dy bytes, read back as signed 8-bit
\* two's-complement values, sum to (dx, dy); (300, -5) with no button gives
\* exactly 3 frames.
C1_DecodedSumIsDisplacement ==
    (lastOp.op = "relmouse" /\ lastOp.wrote) =>
        LET frames == ParseFrames(lastOp.out)
        IN  /\ SumAxis(frames, 3) = lastOp.ax
            /\ SumAxis(frames, 4) = lastOp.ay
            /\ (lastOp.ax = 300 /\ lastOp.ay = -5 /\ lastOp.bits = 0) => Len(frames) = 3

---------------------------------------------------------------------------
(* Absolute mouse claims, under SpecAbs *)

\* v is floor(offset * 4096 / size)
IsFloorOf(v, offset, size) == v * size <= offset * 4096 /\ offset * 4096 < (v + 1) * size

\* C10: an event at offset (ox, oy) inside a bound element of size (w, h) is
\* sent as x = floor(ox*4096/w), y = floor(oy*4096/h), both in [0, 4095], in a
\* frame [0x02, buttons, xLow, xHigh, yLow, yHigh, 0x00] with low + 256*high the
\* coordinate; the centre of a 1000x500 element gives x = y = 2048, xLow = 0x00,
\* xHigh = 0x08.
C10_AbsoluteFrame ==
    (lastOp.op \in {"absmouse", "abstrailing"} /\ lastOp.wrote) =>
        LET frames == ParseFrames(lastOp.out)
            p == frames[1].payload
            e == lastOp.ev
            px == p[3] + 256 * p[4]
            py == p[5] + 256 * p[6]
        IN  /\ Len(frames) = 1
            /\ frames[1].ok
            /\ frames[1].cmd = 4
            /\ Len(p) = 7
            /\ p[1] = 2
            /\ p[2] = lastOp.bits
            /\ p[7] = 0
            /\ \A i \in 3..6 : p[i] \in 0..255
            /\ px \in 0..4095 /\ IsFloorOf(px, e.ox, e.w)
            /\ py \in 0..4095 /\ IsFloorOf(py, e.oy, e.h)
            /\ (e.w = 1000 /\ e.h = 500 /\ e.ox = 500 /\ e.oy = 250) =>
                  px = 2048 /\ py = 2048 /\ p[3] = 0 /\ p[4] = 8

C10_Witness ==
    /\ lastOp.op = "abstrailing" /\ lastOp.wrote
    /\ lastOp.ev = [w |-> 1000, h |-> 500, ox |-> 500, oy |-> 250]
    /\ lastOp.bits = 1
    /\ ParseFrames(lastOp.out) =
          <<[cmd |-> 4, payload |-> <<2, 1, 0, 8, 0, 8, 0>>, ok |-> TRUE]>>

\* the single absolute-mouse frame of buffer out carries buttons bits and the
\* position of pointer event e
IsAbsFrameOf(out, bits, e) ==
    LET frames == ParseFrames(out)
        p == frames[1].payload
    IN  /\ Len(frames) = 1
        /\ frames[1].ok
        /\ frames[1].cmd = 4
        /\ Len(p) = 7
        /\ p[2] = bits
        /\ IsFloorOf(p[3] + 256 * p[4], e.ox, e.w)
        /\ IsFloorOf(p[5] + 256 * p[6], e.oy, e.h)

\* C11: with a sink in place at most one absolute frame is emitted per 16 ms
\* window: an event outside a window is emitted at once and opens a window, an
\* event inside a window emits nothing when it occurs and becomes the pending
\* state, and the pending state (that of the last event of the window) leaves
\* only by being emitted, once, by the call at the window's end, which opens
\* the next window.
C11_LeadingThenTrailingValue ==
    [][/\ (lastOp'.op = "absmouse" /\ ~thr.inWindow) =>
              /\ writer => lastOp'.wrote /\ IsAbsFrameOf(lastOp'.out, lastOp'.bits, lastOp'.ev)
              /\ thr'.inWindow /\ ~thr'.pending
       /\ (lastOp'.op = "absmouse" /\ thr.inWindow) =>
              /\ ~lastOp'.wrote /\ lastOp'.out = <<>>
              /\ thr'.inWindow /\ thr'.pending
              /\ thr'.bits = lastOp'.bits /\ thr'.ev = lastOp'.ev
       /\ (thr.pending /\ ~thr'.pending) =>
              /\ lastOp'.op = "abstrailing"
              /\ lastOp'.bits = thr.bits /\ lastOp'.ev = thr.ev
              /\ writer => lastOp'.wrote /\ IsAbsFrameOf(lastOp'.out, thr.bits, thr.ev)
              /\ thr'.inWindow
       /\ (thr.inWindow /\ ~thr'.inWindow) => ~thr.pending /\ lastOp'.out = <<>>
       /\ (lastOp'.op \in {"absmouse", "abstrailing"} /\ lastOp'.out # <<>>) =>
              /\ Len(ParseFrames(lastOp'.out)) = 1
              /\ lastOp'.op = "absmouse" => ~thr.inWindow
              /\ thr'.inWindow
      ]_vars

C11_Witness ==
    /\ lastOp.op = "abstrailing" /\ lastOp.wrote
    /\ lastOp.calls = 2
    /\ lastOp.bits = 0
    /\ lastOp.ev = [w |-> 3, h |-> 7, ox |-> 2, oy |-> 6]
    /\ IsAbsFrameOf(lastOp.out, 0, lastOp.ev)
    /\ thr.inWindow /\ ~thr.pending

---------------------------------------------------------------------------
(* Text send and macros: strings are sequences of one-character strings *)

LowerLetters == <<"a", "b", "c", "d", "e", "f", "g", "h", "i", "j", "k", "l", "m",
                  "n", "o", "p", "q", "r", "s", "t", "u", "v", "w", "x", "y", "z">>
UpperLetters == <<"A", "B", "C", "D", "E", "F", "G", "H", "I", "J", "K", "L", "M",
                  "N", "O", "P", "Q", "R", "S", "T", "U", "V", "W", "X", "Y", "Z">>
Digits == <<"0", "1", "2", "3", "4", "5", "6", "7", "8", "9">>
WhiteSpace == {" ", "\n"}

\* String.prototype.toUpperCase / toLowerCase on the characters drawn
toUpperCase(str) ==
    [i \in DOMAIN str |->
        IF \E j \in DOMAIN LowerLetters : LowerLetters[j] = str[i]
        THEN UpperLetters[CHOOSE j \in DOMAIN LowerLetters : LowerLetters[j] = str[i]]
        ELSE str[i]]
toLowerCase(str) ==
    [i \in DOMAIN str |->
        IF \E j \in DOMAIN UpperLetters : UpperLetters[j] = str[i]
        THEN LowerLetters[CHOOSE j \in DOMAIN UpperLetters : UpperLetters[j] = str[i]]
        ELSE str[i]]

\* String.prototype.trim
RECURSIVE trim(_)
trim(str) ==
    IF str = <<>> THEN str
    ELSE IF Head(str) \in WhiteSpace THEN trim(Tail(str))
    ELSE IF str[Len(str)] \in WhiteSpace THEN trim(SubSeq(str, 1, Len(str) - 1))
    ELSE str

\* str.split('+')
RECURSIVE split(_)
split(str) ==
    IF \A i \in DOMAIN str : str[i] # "+" THEN <<str>>
    ELSE LET i == CHOOSE k \in DOMAIN str :
                      str[k] = "+" /\ \A j \in 1..(k - 1) : str[j] # "+"
         IN  <<SubSeq(str, 1, i - 1)>> \o split(SubSeq(str, i + 1, Len(str)))

\* the string a sequence of characters spells
RECURSIVE Join(_)
Join(str) == IF str = <<>> THEN "" ELSE Head(str) \o Join(Tail(str))

\* keyMap of sendCommandKey
keyMap ==
    [ENTER |-> 40, ESCAPE |-> 41, ESC |-> 41, BACKSPACE |-> 42, TAB |-> 43, SPACE |-> 44,
     CAPSLOCK |-> 57, F1 |-> 58, F2 |-> 59, F3 |-> 60, F4 |-> 61, F5 |-> 62, F6 |-> 63,
     F7 |-> 64, F8 |-> 65, F9 |-> 66, F10 |-> 67, F11 |-> 68, F12 |-> 69,
     SCROLLLOCK |-> 71, PAUSE |-> 72, INSERT |-> 73, HOME |-> 74, PAGEUP |-> 75,
     DELETE |-> 76, DEL |-> 76, END |-> 77, PAGEDOWN |-> 78, RIGHT |-> 79,
     ARROWRIGHT |-> 79, LEFT |-> 80, ARROWLEFT |-> 80, DOWN |-> 81, ARROWDOWN |-> 81,
     UP |-> 82, ARROWUP |-> 82, NUMLOCK |-> 83]

\* the modifier a part of a command names, or "" for any other part
ModifierOfPart(part) ==
    LET p == Join(part)
    IN  IF p \in {"CTRL", "CONTROL"} THEN "Control"
        ELSE IF p = "SHIFT" THEN "Shift"
        ELSE IF p = "ALT" THEN "Alt"
        ELSE IF p \in {"META", "WIN", "CMD"} THEN "Meta"
        ELSE ""

RECURSIVE ScanParts_LastModifierWins(_, _)
ScanParts_LastModifierWins(parts, acc) ==
    IF parts = <<>> THEN acc
    ELSE LET m == ModifierOfPart(Head(parts))
         IN  ScanParts_LastModifierWins(Tail(parts),
                       IF m # "" THEN [acc EXCEPT !.mods = {m}]
                       ELSE [acc EXCEPT !.mainKey = Head(parts)])

\* "for (const part of parts)": the modifiers OR'ed into controlBits, and mainKey
RECURSIVE ScanParts(_, _)
ScanParts(parts, acc) ==
    IF parts = <<>> THEN acc
    ELSE LET m == ModifierOfPart(Head(parts))
         IN  ScanParts(Tail(parts),
                       IF m # "" THEN [acc EXCEPT !.mods = @ \cup {m}]
                       ELSE [acc EXCEPT !.mainKey = Head(parts)])

\* the hidCode sendCommandKey finds for mainKey, 0 when it finds none
hidCodeOf(mainKey) ==
    IF Len(mainKey) = 1
    THEN IF toUpperCase(mainKey)[1] \in DOMAIN ASCII_KEYS
         THEN ASCII_KEYS[toUpperCase(mainKey)[1]][1]
         ELSE IF toLowerCase(mainKey)[1] \in DOMAIN ASCII_KEYS
              THEN ASCII_KEYS[toLowerCase(mainKey)[1]][1]
              ELSE 0
    ELSE IF Join(mainKey) \in DOMAIN keyMap THEN keyMap[Join(mainKey)] ELSE 0

\* one step of a run: a buffer to hand to writeSerial (followed by the 16 ms
\* sleep), a notification, or a sleep of ms milliseconds
KeyStep(from, bits, hid) ==
    [kind |-> "key", what |-> from, arg |-> "", ms |-> 16,
     buf |-> Packet(CMD_SEND_KB_GENERAL_DATA, <<bits, 0, hid, 0, 0, 0, 0, 0>>)
                \o ReleasePacket]
NoteStep(what, arg) == [kind |-> "note", what |-> what, arg |-> arg, ms |-> 0, buf |-> <<>>]
SleepStep(ms) == [kind |-> "sleep", what |-> "delay", arg |-> "", ms |-> ms, buf |-> <<>>]

\* sendCommandKey(command): "Unknown key command" when hidCode stays 0, else the
\* press packet and the release packet in one buffer
sendCommandKey(command) ==
    LET parts == [i \in DOMAIN split(command) |-> trim(split(command)[i])]
        acc == ScanParts(parts, [mods |-> {}, mainKey |-> <<>>])
        hidCode == hidCodeOf(acc.mainKey)
    IN  IF hidCode = 0
        THEN <<NoteStep("unknownCommand", Join(command))>>
        ELSE <<KeyStep("command", ControlBitsOf(acc.mods), hidCode)>>

RECURSIVE TypeChars_StopsAtUnsupported(_)
TypeChars_StopsAtUnsupported(text) ==
    IF text = <<>> THEN [steps |-> <<>>, errorChars |-> <<>>]
    ELSE LET key == Head(text)
         IN  IF key \notin DOMAIN ASCII_KEYS
             THEN [steps |-> <<>>, errorChars |-> <<key>>]
             ELSE [TypeChars_StopsAtUnsupported(Tail(text)) EXCEPT !.steps =
                      <<KeyStep("char", IF ASCII_KEYS[key][2] THEN 2 ELSE 0,
                                ASCII_KEYS[key][1])>> \o @]

\* the for..of loop of sendText: a key step for every character of the table,
\* the others pushed to errorChars
RECURSIVE TypeChars(_)
TypeChars(text) ==
    IF text = <<>> THEN [steps |-> <<>>, errorChars |-> <<>>]
    ELSE LET rest == TypeChars(Tail(text))
             key == Head(text)
         IN  IF key \notin DOMAIN ASCII_KEYS
             THEN [rest EXCEPT !.errorChars = <<key>> \o @]
             ELSE [rest EXCEPT !.steps =
                      <<KeyStep("char", IF ASCII_KEYS[key][2] THEN 2 ELSE 0,
                                ASCII_KEYS[key][1])>> \o @]

\* sendText(text): the characters typed, then one notification when errorChars
\* is not empty
sendText(text) ==
    LET t == TypeChars(text)
    IN  IF t.errorChars = <<>> THEN t.steps
        ELSE t.steps \o <<NoteStep("unsupportedChars", Join(t.errorChars))>>

\* text[i..i+2] is "|||"
IsDelimAt(text, i) ==
    i >= 1 /\ i + 2 <= Len(text) /\ text[i] = "|" /\ text[i + 1] = "|" /\ text[i + 2] = "|"

\* the positions e at which a match of /\|\|\|(.+?)\|\|\|/ opened at s can close:
\* at least one character captured, none of them a line break
ClosesOf(text, s) ==
    {e \in (s + 4)..(Len(text) - 2) :
        IsDelimAt(text, e) /\ \A k \in (s + 3)..(e - 1) : text[k] # "\n"}

SetMin(S) == CHOOSE m \in S : \A n \in S : m <= n

\* commandRegex.exec(text) with lastIndex = from - 1: the leftmost opening that
\* can close, and its nearest close (the capture is lazy)
RegexExec(text, from) ==
    LET opens == {s \in from..Len(text) : IsDelimAt(text, s) /\ ClosesOf(text, s) # {}}
    IN  IF opens = {} THEN [found |-> FALSE, index |-> 0, capture |-> <<>>, next |-> from]
        ELSE LET s == SetMin(opens)
                 e == SetMin(ClosesOf(text, s))
             IN  [found |-> TRUE, index |-> s, capture |-> SubSeq(text, s + 3, e - 1),
                  next |-> e + 3]

\* the digits at the head of str
RECURSIVE DigitPrefix(_)
DigitPrefix(str) ==
    IF str # <<>> /\ \E d \in DOMAIN Digits : Digits[d] = Head(str)
    THEN <<Head(str)>> \o DigitPrefix(Tail(str))
    ELSE <<>>

DigitValue(c) == (CHOOSE d \in DOMAIN Digits : Digits[d] = c) - 1

RECURSIVE DecimalValue(_)
DecimalValue(digits) ==
    IF digits = <<>> THEN 0
    ELSE DecimalValue(SubSeq(digits, 1, Len(digits) - 1)) * 10
            + DigitValue(digits[Len(digits)])

\* parseFloat(str) for a sign, digits and a fraction (no exponent, no Infinity):
\* NaN without a digit, else the sign and the value in whole milliseconds
parseFloat(str) ==
    LET signed == str # <<>> /\ Head(str) \in {"-", "+"}
        body == IF signed THEN Tail(str) ELSE str
        int == DigitPrefix(body)
        afterInt == SubSeq(body, Len(int) + 1, Len(body))
        frac == IF afterInt # <<>> /\ Head(afterInt) = "."
                THEN DigitPrefix(Tail(afterInt)) ELSE <<>>
        frac3 == SubSeq(frac \o <<"0", "0", "0">>, 1, 3)
        nonZero == \E i \in DOMAIN (int \o frac) : (int \o frac)[i] # "0"
    IN  [nan |-> int = <<>> /\ frac = <<>>,
         positive |-> nonZero /\ ~(signed /\ Head(str) = "-"),
         ms |-> DecimalValue(int) * 1000 + DecimalValue(frac3)]

startsWith(str, prefix) ==
    Len(str) >= Len(prefix) /\ SubSeq(str, 1, Len(prefix)) = prefix

DelayPrefix == <<"D", "E", "L", "A", "Y", "=">>

\* the body of the while loop of sendAdvancedText in MacrosMenu.vue for one
\* match: an empty command is skipped, DELAY=<v> sleeps or is reported, any
\* other command goes to sendCommandKey in upper case
macroCommand(raw) ==
    LET command == trim(raw)
        commandUpper == toUpperCase(command)
        delaySeconds == parseFloat(trim(SubSeq(command, 7, Len(command))))
    IN  IF command = <<>> THEN <<>>
        ELSE IF startsWith(commandUpper, DelayPrefix)
             THEN IF ~delaySeconds.nan /\ delaySeconds.positive
                  THEN <<SleepStep(delaySeconds.ms)>>
                  ELSE <<NoteStep("invalidDelay", Join(command))>>
        ELSE sendCommandKey(commandUpper)

\* the same place of sendAdvancedText in the input component: every match goes
\* to sendCommandKey
inputCommand(raw) == sendCommandKey(toUpperCase(trim(raw)))

\* sendAdvancedText(text) from position from on: the text before each match,
\* the match's command, and the text after the last match
RECURSIVE sendAdvancedText(_, _, _)
sendAdvancedText(menu, text, from) ==
    LET match == RegexExec(text, from)
        textBefore == SubSeq(text, from, match.index - 1)
        remainingText == SubSeq(text, from, Len(text))
    IN  IF match.found
        THEN (IF textBefore # <<>> THEN sendText(textBefore) ELSE <<>>)
                \o (IF menu THEN macroCommand(match.capture) ELSE inputCommand(match.capture))
                \o sendAdvancedText(menu, text, match.next)
        ELSE IF remainingText # <<>> THEN sendText(remainingText) ELSE <<>>

\* the steps of an operation: "macro" is handleMacroSelect of MacrosMenu.vue,
\* "text" is showSendInput and "advanced" showSendAdvancedInput of the input
\* component
Entries == {"macro", "text", "advanced"}
StepsOf(entry, text) ==
    CASE entry = "macro" -> sendAdvancedText(TRUE, text, 1)
      [] entry = "advanced" -> sendAdvancedText(FALSE, text, 1)
      [] entry = "text" -> sendText(text)

---------------------------------------------------------------------------
(* The texts sent, and a run as the operator's async functions execute it *)

\* segments a text is put together from
MaxSegs == 2
\* times the sink can go away under one operation and come back
MaxOutages == 1

Marker == <<"|", "|", "|">>
Token(command) == Marker \o command \o Marker

Segments ==
    {<<"a">>, <<"é">>, Marker,
     Token(<<"f", "1">>),
     Token(<<" ">>),
     Token(<<"d", "e", "l", "a", "y", "=", "2">>),
     Token(<<"F", "1", "3">>)}

\* segments of a text handed to sendText directly
PlainSegments == {<<"a">>, <<"é">>, <<"|">>}

RECURSIVE TextsOf(_, _)
TextsOf(segs, n) ==
    IF n = 0 THEN {<<>>}
    ELSE TextsOf(segs, n - 1) \cup {t \o s : t \in TextsOf(segs, n - 1), s \in segs}

ExampleText ==
    <<"h", "i">> \o Token(<<"E", "N", "T", "E", "R">>) \o <<"b", "y", "e">>
        \o Token(<<"D", "E", "L", "A", "Y", "=", "0", ".", "5">>) \o <<"e", "n", "d">>

CtrlAltDel == Token(<<"C", "T", "R", "L", "+", "A", "L", "T", "+", "D", "E", "L">>)

FixedTexts ==
    {ExampleText, CtrlAltDel,
     Token(<<"a", "l", "t", "+", "D", "E", "L", "+", "C", "T", "R", "L", "+", "A", "L", "T">>),
     Token(<<"s", "h", "i", "f", "t", " ", "+", " ", "b">>),
     Token(<<"C", "T", "R", "L">>),
     Token(<<"C", "T", "R", "L", "+", "A", "+", "B">>),
     Token(<<"D", "E", "L", "A", "Y", "=", "-", "1">>),
     Token(<<"D", "E", "L", "A", "Y", "=", "0">>),
     Token(<<"D", "E", "L", "A", "Y", "=", "a", "b", "c">>),
     <<"é", "a">> \o Token(<<"E", "N", "T", "E", "R">>) \o <<"a", "é">>}

\* the operations drawn: the two interpreters of markers on the texts of
\* segments and on the fixed texts, sendText on plain texts and on one marker
Operations ==
    ({"macro", "advanced"} \X (TextsOf(Segments, MaxSegs) \cup FixedTexts))
        \cup ({"text"} \X (TextsOf(PlainSegments, MaxSegs) \cup {Token(<<"f", "1">>)}))

\* what a run leaves in its trace besides the steps it took
Event(kind) == [kind |-> kind, what |-> "", arg |-> "", ms |-> 0, buf |-> <<>>]

\* the last buffer of the trace found no writer
Unsent(trace) ==
    \E i \in DOMAIN trace :
        /\ trace[i].what = "notInitialized"
        /\ \A j \in (i + 1)..Len(trace) : trace[j].kind # "key"

RECURSIVE advance_NoAwaitOfWrite(_)
advance_NoAwaitOfWrite(m) ==
    IF m.pc > Len(m.steps)
    THEN [m EXCEPT !.phase = "done",
                   !.trace = IF m.entry = "macro" THEN Append(@, NoteStep("executed", ""))
                             ELSE @]
    ELSE LET step == m.steps[m.pc]
         IN  CASE step.kind = "note" ->
                    advance_NoAwaitOfWrite([m EXCEPT !.pc = @ + 1,
                                                     !.trace = Append(@, step)])
               [] step.kind = "sleep" ->
                    [m EXCEPT !.phase = "delaying", !.trace = Append(@, step)]
               [] step.kind = "key" ->
                    [m EXCEPT !.phase = "pacing",
                              !.trace = Append(@, IF writer THEN step
                                                  ELSE NoteStep("notInitialized", ""))]

RECURSIVE advance_EndsAtReport(_)
advance_EndsAtReport(m) ==
    IF m.pc > Len(m.steps)
    THEN [m EXCEPT !.phase = "done",
                   !.trace = IF m.entry = "macro" THEN Append(@, NoteStep("executed", ""))
                             ELSE @]
    ELSE LET step == m.steps[m.pc]
         IN  CASE step.kind = "note" ->
                    [m EXCEPT !.phase = "done", !.trace = Append(@, step)]
               [] step.kind = "sleep" ->
                    [m EXCEPT !.phase = "delaying", !.trace = Append(@, step)]
               [] step.kind = "key" ->
                    IF writer
                    THEN [m EXCEPT !.phase = "writing", !.trace = Append(@, step)]
                    ELSE [m EXCEPT !.phase = "pacing",
                                   !.trace = Append(@, NoteStep("notInitialized", "")),
                                   !.outages = IF Unsent(m.trace) THEN @ ELSE @ + 1]

\* an async function resumed at step pc, up to its next await of a write or of
\* a sleep: notifications are issued on the way; writeSerial without a writer
\* notifies, returns undefined, and the 16 ms sleep follows at once
RECURSIVE advance(_)
advance(m) ==
    IF m.pc > Len(m.steps)
    THEN [m EXCEPT !.phase = "done",
                   !.trace = IF m.entry = "macro" THEN Append(@, NoteStep("executed", ""))
                             ELSE @]
    ELSE LET step == m.steps[m.pc]
         IN  CASE step.kind = "note" ->
                    advance([m EXCEPT !.pc = @ + 1, !.trace = Append(@, step)])
               [] step.kind = "sleep" ->
                    [m EXCEPT !.phase = "delaying", !.trace = Append(@, step)]
               [] step.kind = "key" ->
                    IF writer
                    THEN [m EXCEPT !.phase = "writing", !.trace = Append(@, step)]
                    ELSE [m EXCEPT !.phase = "pacing",
                                   !.trace = Append(@, NoteStep("notInitialized", "")),
                                   !.outages = IF Unsent(m.trace) THEN @ ELSE @ + 1]

\* the buffer a run handed to the sink in its last stretch
HandedOut(m) ==
    IF m.phase = "writing" THEN m.trace[Len(m.trace)].buf ELSE <<>>

MacroOp(name, m) ==
    [NoOp EXCEPT !.op = name, !.port = serialPort, !.wrote = (HandedOut(m) # <<>>),
                 !.out = HandedOut(m)]

\* handleMacroSelect (a macro of the store selected), showSendInput and
\* showSendAdvancedInput (the prompt answered), on the operation drawn
macroStart ==
    LET fresh == [macro EXCEPT !.phase = "ready",
                               !.steps = StepsOf(macro.entry, macro.text)]
        m == IF macro.entry = "macro" /\ ~writer
             THEN [macro EXCEPT !.phase = "refused",
                                !.trace = <<NoteStep("notConnected", "")>>]
             ELSE advance(fresh)
    IN  /\ macro.phase = "idle"
        /\ macro' = m
        /\ lastOp' = MacroOp("macroStart", m)
        /\ UNCHANGED <<pktVars, serialVars, kbdVars, cursorMode, wheelBound, relVars,
                       absVars>>

\* the promise of writer.value.write resolves: "await sleep(16)" follows
macroWriteDone ==
    /\ macro.phase = "writing"
    /\ macro' = [macro EXCEPT !.phase = "pacing", !.trace = Append(@, Event("written"))]
    /\ lastOp' = [NoOp EXCEPT !.op = "macroWriteDone", !.port = serialPort]
    /\ UNCHANGED <<pktVars, serialVars, kbdVars, cursorMode, wheelBound, relVars, absVars>>

\* the promise rejects: the rejection leaves sendText / sendCommandKey and
\* sendAdvancedText; handleMacroSelect catches it and notifies, the input
\* component's callers do not
macroWriteFailed ==
    /\ macro.phase = "writing"
    /\ macro' = [macro EXCEPT !.phase = "failed",
                              !.trace = Append(@, IF macro.entry = "macro"
                                                  THEN NoteStep("failed", "")
                                                  ELSE Event("rejected"))]
    /\ lastOp' = [NoOp EXCEPT !.op = "macroWriteFailed", !.port = serialPort,
                    !.threw = (macro.entry # "macro")]
    /\ UNCHANGED <<pktVars, serialVars, kbdVars, cursorMode, wheelBound, relVars, absVars>>

\* the timer of sleep(16) or of sleep(delaySeconds * 1000) fires: the next step
macroTimer ==
    LET m == advance([macro EXCEPT !.pc = @ + 1, !.trace = Append(@, Event("timer"))])
    IN  /\ macro.phase \in {"pacing", "delaying"}
        /\ macro' = m
        /\ lastOp' = MacroOp("macroTimer", m)
        /\ UNCHANGED <<pktVars, serialVars, kbdVars, cursorMode, wheelBound, relVars,
                       absVars>>

\* the operation drawn: its entry point and its text
InitMacro ==
    /\ pkt = [cmd |-> CMD_SEND_KB_GENERAL_DATA, data |-> <<>>, done |-> TRUE,
              res |-> genPacket(CMD_SEND_KB_GENERAL_DATA, <<>>)]
    /\ serialPort = FALSE
    /\ writer = FALSE
    /\ keyboardCompatibleMode = FALSE
    /\ cursorMode = "absolute"
    /\ eatKeys = {}
    /\ focused = TRUE
    /\ relBound = FALSE
    /\ wheelBound = FALSE
    /\ pressedBits = 0
    /\ x = 0
    /\ y = 0
    /\ timer = "null"
    /\ burst = 0
    /\ emittedBits = -1
    /\ absMouseRef = "null"
    /\ thr = NullThrottle
    /\ \E o \in Operations : macro = [NoRun EXCEPT !.entry = o[1], !.text = o[2]]
    /\ lastOp = NoOp

NextMacro ==
    \/ macro.outages <= MaxOutages /\ initSerial
    \/ closeSerial
    \/ macroStart
    \/ macroWriteDone
    \/ macroWriteFailed
    \/ macroTimer

SpecMacro == InitMacro /\ [][NextMacro]_vars

---------------------------------------------------------------------------
(* Text send and macro claims, under SpecMacro *)

IsAct(e) == e.kind \in {"key", "sleep"}
IsKey(e) == e.kind = "key"
IsAttempt(e) == e.kind = "key" \/ e.what = "notInitialized"

\* what a run did to the remote side, in order: buffers written and waits made
Acts(seq) == SelectSeq(seq, IsAct)

\* the run ended with the sink in place throughout
CleanRun ==
    /\ macro.phase = "done"
    /\ \A i \in DOMAIN macro.trace : macro.trace[i].what # "notInitialized"

\* Literal(piece): every character of the table typed in order
RECURSIVE LiteralActs(_)
LiteralActs(piece) ==
    IF piece = <<>> THEN <<>>
    ELSE (IF Head(piece) \in DOMAIN ASCII_KEYS
          THEN <<KeyStep("char", IF ASCII_KEYS[Head(piece)][2] THEN 2 ELSE 0,
                         ASCII_KEYS[Head(piece)][1])>>
          ELSE <<>>) \o LiteralActs(Tail(piece))

IsDelayToken(raw) == startsWith(toUpperCase(trim(raw)), DelayPrefix)
DelayValue(raw) == parseFloat(trim(SubSeq(trim(raw), 7, Len(trim(raw)))))
ValidDelay(raw) == ~DelayValue(raw).nan /\ DelayValue(raw).positive

\* the token between two markers: nothing when it is blank, Delay(v) for a
\* valid DELAY=<v>, nothing for an invalid one, else Command(name)
TokenActs(raw) ==
    IF trim(raw) = <<>> THEN <<>>
    ELSE IF IsDelayToken(raw)
         THEN IF ValidDelay(raw) THEN <<SleepStep(DelayValue(raw).ms)>> ELSE <<>>
    ELSE SelectSeq(sendCommandKey(toUpperCase(trim(raw))), IsKey)

\* the steps of a macro text read from left to right
RECURSIVE SpecActions(_, _)
SpecActions(text, from) ==
    LET match == RegexExec(text, from)
    IN  IF match.found
        THEN LiteralActs(SubSeq(text, from, match.index - 1))
                \o TokenActs(match.capture) \o SpecActions(text, match.next)
        ELSE LiteralActs(SubSeq(text, from, Len(text)))

\* the captures of the markers of a text, from left to right
RECURSIVE TokensOf(_, _)
TokensOf(text, from) ==
    LET match == RegexExec(text, from)
    IN  IF match.found THEN <<match.capture>> \o TokensOf(text, match.next) ELSE <<>>

\* C12: literal segments and |||token||| markers are processed in text order
\* by both interpreters of markers: the text before a token is typed before
\* the token's action, the text after the last token last, blank tokens are
\* skipped without a report, and the example text runs as hi, ENTER, bye,
\* Delay(0.5), end.
C12_LeftToRightSteps ==
    (CleanRun /\ macro.entry \in {"macro", "advanced"}) =>
        /\ Acts(macro.trace) = SpecActions(macro.text, 1)
        /\ \A i \in DOMAIN macro.trace :
              macro.trace[i].what = "unknownCommand" => macro.trace[i].arg # ""
        /\ macro.text = ExampleText =>
              Acts(macro.trace) =
                  <<KeyStep("char", 0, 11), KeyStep("char", 0, 12),
                    KeyStep("command", 0, 40),
                    KeyStep("char", 0, 5), KeyStep("char", 0, 28), KeyStep("char", 0, 8),
                    SleepStep(500),
                    KeyStep("char", 0, 8), KeyStep("char", 0, 17), KeyStep("char", 0, 7)>>

IsDelayOutcome(e) == e.kind = "sleep" \/ e.what = "invalidDelay"

\* what the DELAY tokens of a text come to, in order
RECURSIVE DelayOutcomes(_)
DelayOutcomes(tokens) ==
    IF tokens = <<>> THEN <<>>
    ELSE (IF ~IsDelayToken(Head(tokens)) THEN <<>>
          ELSE IF ValidDelay(Head(tokens)) THEN <<SleepStep(DelayValue(Head(tokens)).ms)>>
          ELSE <<NoteStep("invalidDelay", Join(trim(Head(tokens))))>>)
         \o DelayOutcomes(Tail(tokens))

\* C13: in both interpreters of markers every token DELAY=<v>, in any case,
\* waits v seconds when v parses to a positive number and else is reported as
\* an invalid delay without a wait; it writes no frame and is never handed to
\* the key-command lookup, and the steps after it run.
C13_DelayTokens ==
    (CleanRun /\ macro.entry \in {"macro", "advanced"}) =>
        /\ SelectSeq(macro.trace, IsDelayOutcome) = DelayOutcomes(TokensOf(macro.text, 1))
        /\ SelectSeq(macro.trace, IsKey) = SelectSeq(SpecActions(macro.text, 1), IsKey)

\* the run has its steps: it was started and not refused for want of a port
Started == macro.phase \notin {"idle", "refused"}

\* no buffer of the run found the writer gone, and no write was rejected
SinkHeld ==
    \A i \in DOMAIN macro.trace :
        /\ macro.trace[i].what \notin {"notInitialized", "failed"}
        /\ macro.trace[i].kind # "rejected"

\* the text is one marker from end to end
IsOneToken(text) ==
    LET match == RegexExec(text, 1)
    IN  match.found /\ match.index = 1 /\ match.next = Len(text) + 1

\* the parts of the command of a one-marker text, as sendCommandKey receives them
PartsOf(text) ==
    LET command == toUpperCase(trim(RegexExec(text, 1).capture))
    IN  [i \in DOMAIN split(command) |-> trim(split(command)[i])]

ModifierParts(parts) == {i \in DOMAIN parts : ModifierOfPart(parts[i]) # ""}
KeyParts(parts) == {i \in DOMAIN parts : ModifierOfPart(parts[i]) = ""}

\* the named-key table first, the character table for a single character
ResolvedCode(part) ==
    IF Join(part) \in DOMAIN keyMap THEN keyMap[Join(part)]
    ELSE IF Len(part) = 1 /\ part[1] \in DOMAIN ASCII_KEYS THEN ASCII_KEYS[part[1]][1]
    ELSE IF Len(part) = 1 /\ toLowerCase(part)[1] \in DOMAIN ASCII_KEYS
         THEN ASCII_KEYS[toLowerCase(part)[1]][1]
    ELSE 0

\* a one-marker text that is a key command: not blank, not a DELAY token
IsCommandText(text) ==
    /\ IsOneToken(text)
    /\ trim(RegexExec(text, 1).capture) # <<>>
    /\ ~IsDelayToken(RegexExec(text, 1).capture)

\* C14: for a command token with one key part that resolves, the press frame
\* carries the OR of the bits of its modifier parts, whatever their order and
\* repetition, and the code of the key part (named-key table, or character
\* table for a single character), and is followed by the release frame;
\* CTRL+ALT+DEL gives ControlBits 0b0101 and hidCode 0x4C.
C14_CommandBitsAndCode ==
    (/\ Started /\ macro.entry \in {"macro", "advanced"}
     /\ IsCommandText(macro.text)
     /\ Cardinality(KeyParts(PartsOf(macro.text))) = 1) =>
        LET parts == PartsOf(macro.text)
            key == parts[CHOOSE i \in KeyParts(parts) : TRUE]
            names == {ModifierOfPart(parts[i]) : i \in ModifierParts(parts)}
        IN  /\ ResolvedCode(key) # 0 =>
                  /\ Len(macro.steps) = 1
                  /\ macro.steps[1].kind = "key"
                  /\ ParseFrames(macro.steps[1].buf) =
                        <<KbFrame(MaskOf(names), ResolvedCode(key)), KbFrame(0, 0)>>
            /\ macro.text = CtrlAltDel =>
                  ParseFrames(macro.steps[1].buf) = <<KbFrame(5, 76), KbFrame(0, 0)>>

C14_Witness ==
    /\ macro.entry = "macro"
    /\ macro.phase = "writing"
    /\ macro.text =
          Token(<<"a", "l", "t", "+", "D", "E", "L", "+", "C", "T", "R", "L", "+", "A", "L", "T">>)
    /\ ParseFrames(lastOp.out) = <<KbFrame(5, 76), KbFrame(0, 0)>>

\* C15: a command token runs only when exactly one part is left after its
\* modifier parts and that part resolves to a key; with no such part, with two
\* or more, or with an unknown key name it is reported and writes no frame.
C15_OneKeyPartOrReport ==
    (/\ Started /\ macro.entry \in {"macro", "advanced"}
     /\ IsCommandText(macro.text)) =>
        LET parts == PartsOf(macro.text)
            keys == KeyParts(parts)
            runs == /\ Cardinality(keys) = 1
                    /\ ResolvedCode(parts[CHOOSE i \in keys : TRUE]) # 0
        IN  /\ Len(macro.steps) = 1
            /\ macro.steps[1].kind = IF runs THEN "key" ELSE "note"
            /\ ~runs => macro.steps[1].what = "unknownCommand"

\* the text without what the run reported: the characters the table lacks in
\* the text typed, the markers of unknown commands and of invalid delays
RECURSIVE Stripped(_, _, _)
Stripped(menu, text, from) ==
    LET match == RegexExec(text, from)
        supported(piece) == SelectSeq(piece, LAMBDA c : c \in DOMAIN ASCII_KEYS)
        steps == IF menu THEN macroCommand(match.capture) ELSE inputCommand(match.capture)
        reported == steps # <<>> /\ steps[1].kind = "note"
    IN  IF match.found
        THEN supported(SubSeq(text, from, match.index - 1))
                \o (IF reported THEN <<>> ELSE SubSeq(text, match.index, match.next - 1))
                \o Stripped(menu, text, match.next)
        ELSE supported(SubSeq(text, from, Len(text)))

StrippedText(entry, text) ==
    CASE entry = "macro" -> Stripped(TRUE, text, 1)
      [] entry = "advanced" -> Stripped(FALSE, text, 1)
      [] entry = "text" -> SelectSeq(text, LAMBDA c : c \in DOMAIN ASCII_KEYS)

IsUnsupportedReport(e) == e.what = "unsupportedChars"

\* C17: a run reports the unsupported characters it met once, after its last
\* step: its trace holds at most one such report, with nothing written or
\* waited after it, however many literal segments had such characters.
C17_OneReportAtTheEnd ==
    (macro.phase # "idle") =>
        LET reports == {i \in DOMAIN macro.trace : IsUnsupportedReport(macro.trace[i])}
        IN  /\ Cardinality(reports) <= 1
            /\ \A i \in reports : \A j \in (i + 1)..Len(macro.trace) :
                  ~IsAct(macro.trace[j]) /\ ~IsAttempt(macro.trace[j])

\* the entries of the trace at which a step starts, or the run's closing note
StartsStep(e) == IsAct(e) \/ IsAttempt(e) \/ e.what = "executed"

\* the first index after i at which a step starts, 0 when there is none
NextStart(trace, i) ==
    LET later == {j \in (i + 1)..Len(trace) : StartsStep(trace[j])}
    IN  IF later = {} THEN 0 ELSE SetMin(later)

\* the kinds of the events between two indices of the trace
KindsBetween(trace, i, j) == [k \in 1..(j - i - 1) |-> trace[i + k].kind]

\* C18: in a run every buffer handed to the sink is one press frame followed
\* by the all-zero release frame, and a following step starts only after the
\* write of that buffer was completed and then the 16 ms timer fired; after a
\* Delay step the following step starts only after its timer fired.
C18_StrictlySequential ==
    Started =>
        \A i \in DOMAIN macro.trace :
            LET e == macro.trace[i]
                j == NextStart(macro.trace, i)
                between == SelectSeq(KindsBetween(macro.trace, i, j),
                                     LAMBDA k : k \in {"written", "timer", "rejected"})
            IN  /\ IsKey(e) =>
                      /\ Len(ParseFrames(e.buf)) = 2
                      /\ ParseFrames(e.buf)[1].cmd = 2
                      /\ ParseFrames(e.buf)[1].ok
                      /\ ParseFrames(e.buf)[2] = KbFrame(0, 0)
                      /\ e.ms = 16
                /\ (IsKey(e) /\ j # 0) => between = <<"written", "timer">>
                /\ (e.kind = "sleep" /\ j # 0) => between = <<"timer">>

C18_Witness ==
    /\ macro.entry = "macro"
    /\ macro.phase = "done"
    /\ macro.text = ExampleText
    /\ SinkHeld
    /\ Len(SelectSeq(macro.trace, LAMBDA e : e.kind = "written")) = 9
    /\ Len(SelectSeq(macro.trace, LAMBDA e : e.kind = "timer")) = 10

\* the sink failed the run at this entry of the trace: a buffer found no
\* writer, or its write was rejected
IsSinkLoss(e) == e.what \in {"notInitialized", "failed"} \/ e.kind = "rejected"

\* C19: once a buffer of a run found the sink unavailable or its write failed,
\* the run attempts no later character or command.
C19_SinkLossAborts ==
    \A i \in DOMAIN macro.trace :
        IsSinkLoss(macro.trace[i]) =>
            \A j \in (i + 1)..Len(macro.trace) : ~IsAttempt(macro.trace[j])

\* the operations that hand a buffer to the sink
EmittingOps == {"keydown", "keyup", "blur", "wheel", "absmouse", "abstrailing", "relmouse"}

\* C20: an input handler that runs while no writer exists writes no bytes and
\* lets no exception escape.
C20_NoWriterNoBytesNoThrow ==
    (lastOp.op \in EmittingOps /\ ~writer) =>
        /\ lastOp.out = <<>>
        /\ ~lastOp.wrote
        /\ ~lastOp.threw

---------------------------------------------------------------------------
(* Binding claims *)

\* C21: the relative binding (the move/down/up handlers of the pointer-lock
\* listener) and the absolute binding (the handlers of the bound element) are
\* never attached at the same time.
C21_OneBindingAtATime == ~(relBound /\ absMouseRef = "el")

\* C22: once the absolute binding is released (cursor mode switched to
\* relative, or the serial session closed) no absolute-mouse frame is written
\* until an element is bound again, the call pending in the throttle included.
C22_NoAbsFrameAfterRelease ==
    (lastOp.op \in {"absmouse", "abstrailing"} /\ absMouseRef = "null") =>
        /\ ~lastOp.wrote
        /\ lastOp.out = <<>>

---------------------------------------------------------------------------
(* A run together with the live keyboard *)

\* the runs drawn while the keyboard is live
MixOperations ==
    {<<"macro", <<"a">> \o Token(<<"f", "1">>)>>,
     <<"text", <<"a", "a">>>>,
     <<"advanced", Token(<<"f", "1">>) \o <<"a">>>>}

InitMix ==
    /\ InitMacro
    /\ <<macro.entry, macro.text>> \in MixOperations

\* the run's async functions and the keydown listener share the event loop:
\* the listener runs whenever the run is suspended in an await; the keys
\* pressed are "a" and Escape without modifiers
NextMix ==
    \/ macro.outages <= MaxOutages /\ initSerial
    \/ closeSerial
    \/ macroStart
    \/ macroWriteDone
    \/ macroWriteFailed
    \/ macroTimer
    \/ handleKeydown /\ lastOp'.key \in {"a", "Escape"} /\ lastOp'.mods = {}

SpecMix == InitMix /\ [][NextMix]_vars

\* the run has handed a buffer to the sink already
RunHasWritten == \E i \in DOMAIN macro.trace : IsKey(macro.trace[i])

\* C23: while a run is in progress the sink receives only that run's frames:
\* a buffer of the run that follows an earlier buffer of the run is never
\* handed to the sink right after a buffer written by the keydown listener.
C23_NoForeignFrameInsideRun ==
    [][(/\ RunHasWritten
        /\ lastOp'.op = "macroTimer"
        /\ lastOp'.wrote)
          => ~(lastOp.op = "keydown" /\ lastOp.wrote)]_vars

---------------------------------------------------------------------------
(* A macro run whose writes and timers complete *)

\* the macro menu on every text drawn
InitMacroFair ==
    /\ InitMacro
    /\ macro.entry = "macro"

\* a write handed to the sink is settled and a timer set fires
SpecMacroFair ==
    /\ InitMacroFair
    /\ [][NextMacro]_vars
    /\ WF_vars(macroWriteDone)
    /\ WF_vars(macroTimer)

InProgress == {"writing", "pacing", "delaying"}

\* the entries of the trace that stand for a step of the run
IsStepEntry(e) ==
    \/ IsAct(e)
    \/ e.kind = "note" /\ e.what \notin {"executed", "failed", "notConnected"}

\* every step was taken, in order: each is in the trace, a buffer that found no
\* writer being there as its notification
EveryStepTaken(m) ==
    LET taken == SelectSeq(m.trace, IsStepEntry)
    IN  /\ Len(taken) = Len(m.steps)
        /\ \A i \in DOMAIN taken :
              \/ taken[i] = m.steps[i]
              \/ taken[i].what = "notInitialized" /\ m.steps[i].kind = "key"

\* C24: a macro run in progress is never cancelled (it keeps its text and
\* steps and only moves forward), it ends, and it ends either having taken
\* every step or on a rejected write.
C24_RunTerminates ==
    /\ [][macro.phase \in InProgress =>
              /\ macro'.phase \in InProgress \cup {"done", "failed"}
              /\ macro'.steps = macro.steps
              /\ macro'.pc >= macro.pc
              /\ Len(macro'.trace) >= Len(macro.trace)]_vars
    /\ [](macro.phase = "done" => EveryStepTaken(macro))
    /\ [](macro.phase = "failed" => macro.trace[Len(macro.trace)].what = "failed")
    /\ (macro.phase \in InProgress) ~> (macro.phase \in {"done", "failed"})

C24_Witness ==
    /\ macro.phase = "done"
    /\ macro.text = ExampleText
    /\ SinkHeld
    /\ macro.pc = 11
    /\ macro.trace[Len(macro.trace)].what = "executed"

---------------------------------------------------------------------------
(* Relative mouse: the throttle window, the wheel, conservation *)

\* the step is a run of the relative move/down/up handler
IsRelEvent == lastOp'.op = "relmouse" /\ relBound

\* C25: inside an armed window an event with the buttons unchanged and both
\* accumulated axes in [-127, 127] writes nothing, leaves its motion in the
\* accumulator and the timer armed; and the flush that follows takes the
\* accumulator with it: what a flush splits into frames is the accumulator
\* plus the motion of its event.
C25_ThrottledEventAccumulates ==
    [][IsRelEvent =>
          /\ (/\ timer = "armed"
              /\ lastOp'.bits = pressedBits
              /\ lastOp'.ax \in -127..127
              /\ lastOp'.ay \in -127..127) =>
                /\ ~lastOp'.wrote
                /\ lastOp'.out = <<>>
                /\ x' = lastOp'.ax
                /\ y' = lastOp'.ay
                /\ lastOp'.ax - x \in DeltasX
                /\ lastOp'.ay - y \in DeltasY
                /\ timer' = "armed"
                /\ pressedBits' = pressedBits
          /\ lastOp'.wrote =>
                /\ lastOp'.ax - x \in DeltasX
                /\ lastOp'.ay - y \in DeltasY
                /\ SumSeq([i \in DOMAIN lastOp'.steps |-> lastOp'.steps[i][1]]) = lastOp'.ax
                /\ SumSeq([i \in DOMAIN lastOp'.steps |-> lastOp'.steps[i][2]]) = lastOp'.ay
                /\ timer' = "armed"]_vars

C25_Witness ==
    /\ lastOp.op = "relmouse"
    /\ lastOp.armedBefore
    /\ ~lastOp.wrote
    /\ lastOp.port
    /\ x = 126 /\ y = -10
    /\ timer = "armed"
    /\ burst = 2

\* C26: a wheel event writes, at once and whatever the throttle window, one
\* relative-mouse frame with payload [1, 0, 0, 0, w], w = 0xFD for deltaY > 0
\* and 0x02 otherwise, and leaves accumulator, buttons and timer as they were.
C26_WheelFrame ==
    [][(lastOp'.op = "wheel" /\ writer) =>
          /\ lastOp'.wrote
          /\ ParseFrames(lastOp'.out) =
                <<[cmd |-> 5, ok |-> TRUE,
                   payload |-> <<1, 0, 0, 0, IF lastOp'.ay > 0 THEN 253 ELSE 2>>]>>
          /\ UNCHANGED <<x, y, pressedBits, timer, emittedBits, thr>>]_vars

C26_Witness ==
    /\ lastOp.op = "wheel"
    /\ lastOp.wrote
    /\ lastOp.ay = 0
    /\ lastOp.out = <<87, 171, 0, 5, 5, 1, 0, 0, 0, 2, 15>>
    /\ timer = "armed"
    /\ x = 127

SumX(steps) == SumSeq([i \in DOMAIN steps |-> steps[i][1]])
SumY(steps) == SumSeq([i \in DOMAIN steps |-> steps[i][2]])

C28_NoStrandedDisplacement ==
    (relBound /\ writer /\ timer = "null") => (x = 0 /\ y = 0)

---------------------------------------------------------------------------
(* Absolute mouse: button transitions under the throttle *)

\* C29: an event whose buttons bitmask differs from that of the event before
\* it gets a frame with its bitmask: while its call is the one pending in the
\* throttle, no event with another bitmask takes its place.
C29_PendingTransitionKept ==
    [][(/\ lastOp.op = "absmouse"
        /\ lastOp.bits # lastOp.bitsBefore
        /\ thr.pending
        /\ writer
        /\ absMouseRef = "el"
        /\ lastOp'.op = "absmouse") => lastOp'.bits = lastOp.bits]_vars

---------------------------------------------------------------------------
(* Key combinations and media keys of the toolbar *)

\* specialKeyOptions: value -> the key and controlBits of its "values" (none
\* for the ctrl_alt_f<n> entries); "Capslock" is not a key of the table
specialKeyOptions ==
    [v \in {"ctrl_alt_del", "alt_f4", "shift_alt", "meta", "meta_tab", "alt_tab", "esc",
            "capslock", "ctrl_alt_f1", "ctrl_alt_f4"} |->
        CASE v = "ctrl_alt_del" -> [key |-> "Delete", controlBits |-> 5]
          [] v = "alt_f4" -> [key |-> "F4", controlBits |-> 4]
          [] v = "shift_alt" -> [key |-> "", controlBits |-> 6]
          [] v = "meta" -> [key |-> "", controlBits |-> 8]
          [] v = "meta_tab" -> [key |-> "Tab", controlBits |-> 8]
          [] v = "alt_tab" -> [key |-> "Tab", controlBits |-> 4]
          [] v = "esc" -> [key |-> "Escape", controlBits |-> 0]
          [] v = "capslock" -> [key |-> "Capslock", controlBits |-> 0]
          [] OTHER -> [key |-> "", controlBits |-> 0]]

\* /^ctrl_alt_f\d+$/ on the option values: "F" + value.slice(10)
CtrlAltF == [v \in {"ctrl_alt_f1", "ctrl_alt_f4"} |-> IF v = "ctrl_alt_f1" THEN "F1" ELSE "F4"]

\* the key and controlBits handleSendComboKey sends for an option value
ComboOf(value) ==
    IF value \in DOMAIN CtrlAltF
    THEN [key |-> CtrlAltF[value], controlBits |-> 5]
    ELSE specialKeyOptions[value]

\* handleSendComboKey(): the press frame and the release frame in one buffer
handleSendComboKey ==
    \E value \in DOMAIN specialKeyOptions :
        LET c == ComboOf(value)
            hidCode == IF c.key # "" /\ c.key \in DOMAIN ASCII_KEYS
                       THEN ASCII_KEYS[c.key][1] ELSE 0
            press == genPacket(CMD_SEND_KB_GENERAL_DATA,
                               <<c.controlBits, 0, hidCode, 0, 0, 0, 0, 0>>)
            release == genPacket(CMD_SEND_KB_GENERAL_DATA, <<0, 0, 0, 0, 0, 0, 0, 0>>)
            thrown == press.threw \/ release.threw
            w == writeSerial(press.frame \o release.frame)
        IN  /\ lastOp' = [NoOp EXCEPT !.op = "combo", !.port = serialPort, !.key = value,
                            !.bits = c.controlBits, !.threw = thrown,
                            !.wrote = ~thrown /\ w.wrote,
                            !.out = IF thrown THEN <<>> ELSE w.out]
            /\ UNCHANGED <<pktVars, macroVars, serialVars, kbdVars, cursorMode, wheelBound,
                           relVars, absVars>>

\* mediaKeyACPIOptions: Wake-up, Sleep, Power
mediaKeyACPIOptions == {4, 2, 1}

\* mediaKeyMatrix: three rows of eight MediaKey values
mediaKeyMatrix ==
    <<(<<"Eject", "CD Stop", "Prev. Track", "Next Track", "Play/Pause", "Mute", "Volume-",
         "Volume+">>),
      (<<"Refresh", "Stop", "Forward", "Back", "Home", "Favorites", "Search", "E-Mail">>),
      (<<"Rewind", "Record", "Minimize", "My Computer", "Screen Save", "Calculator",
         "Explorer", "Media">>)>>

\* the values of mediaKeyCommonGroups: MUTE, VOLUME_PLUS, VOLUME_MINUS
mediaKeyCommonGroups == {"Mute", "Volume-", "Volume+"}

RECURSIVE Pow2(_)
Pow2(n) == IF n = 0 THEN 1 ELSE 2 * Pow2(n - 1)

indexToBinary_ShiftsByIndex(index) == Pow2(8 + index)

\* indexToBinary: 1 << (7 - index)
indexToBinary(index) == Pow2(7 - index)

\* "arr[i] = indexToBinary(j)" for the first j of row i holding the value; the
\* loops count from 0
MediaArr(value) ==
    [i \in 1..3 |->
        LET hits == {j \in 1..8 : mediaKeyMatrix[i][j] = value}
        IN  IF hits = {} THEN 0
            ELSE indexToBinary((CHOOSE j \in hits : \A k \in hits : j <= k) - 1)]

\* the two frames of a media-key send, and whether genPacket threw
MediaSend(first, second) ==
    LET press == genPacket(CMD_SEND_KB_MEDIA_DATA, first)
        release == genPacket(CMD_SEND_KB_MEDIA_DATA, second)
        thrown == press.threw \/ release.threw
        w == writeSerial(press.frame \o release.frame)
    IN  [threw |-> thrown, wrote |-> ~thrown /\ w.wrote,
         out |-> IF thrown THEN <<>> ELSE w.out]

\* handleSendMedialKey(): an ACPI key (report 0x01) or a media key (report 0x02)
handleSendMedialKey ==
    /\ \/ \E value \in mediaKeyACPIOptions :
            LET s == MediaSend(<<1, value>>, <<1, 0>>)
            IN  lastOp' = [NoOp EXCEPT !.op = "media", !.port = serialPort, !.key = "acpi",
                             !.bits = value, !.threw = s.threw, !.wrote = s.wrote,
                             !.out = s.out]
       \/ \E value \in mediaKeyCommonGroups :
            LET s == MediaSend(<<2>> \o MediaArr(value), <<2, 0, 0, 0>>)
            IN  lastOp' = [NoOp EXCEPT !.op = "media", !.port = serialPort, !.key = value,
                             !.threw = s.threw, !.wrote = s.wrote, !.out = s.out]
    /\ UNCHANGED <<pktVars, macroVars, serialVars, kbdVars, cursorMode, wheelBound, relVars,
                   absVars>>

---------------------------------------------------------------------------
(* Every path to the sink in one session *)

\* the session either runs one text send or macro, or takes live input
EmitOperations == MixOperations \cup {<<"none", <<>>>>}

InitEmit ==
    /\ pkt = [cmd |-> CMD_SEND_KB_GENERAL_DATA, data |-> <<>>, done |-> TRUE,
              res |-> genPacket(CMD_SEND_KB_GENERAL_DATA, <<>>)]
    /\ serialPort = FALSE
    /\ writer = FALSE
    /\ keyboardCompatibleMode = FALSE
    /\ cursorMode = "absolute"
    /\ eatKeys = {}
    /\ focused = TRUE
    /\ relBound = FALSE
    /\ wheelBound = FALSE
    /\ pressedBits = 0
    /\ x = 0
    /\ y = 0
    /\ timer = "null"
    /\ burst = 0
    /\ emittedBits = -1
    /\ absMouseRef = "null"
    /\ thr = NullThrottle
    /\ \E o \in EmitOperations : macro = [NoRun EXCEPT !.entry = o[1], !.text = o[2]]
    /\ lastOp = NoOp

Live == macro.entry = "none"

\* the selects of the toolbar are operated with the pointer free and off the
\* bound element for longer than a throttle window
AtToolbar == ~relBound /\ ~thr.inWindow

\* the cursor mode is chosen before the pointer is used and kept; the keys
\* pressed are "a" and Shift; the locked pointer moves along x, and the free
\* pointer along the lower edge of the small element
NextEmit ==
    \/ macro.outages <= MaxOutages /\ initSerial
    \/ closeSerial
    \/ ~Live /\ macroStart
    \/ macroWriteDone
    \/ macroWriteFailed
    \/ macroTimer
    \/ Live /\ handleKeydown /\ lastOp'.key \in {"a", "Shift"} /\ lastOp'.mods \subseteq {"Shift"}
    \/ Live /\ handleKeyup /\ lastOp'.key = "a" /\ lastOp'.mods = {}
    \/ Live /\ AtToolbar /\ handleSendComboKey
    \/ Live /\ AtToolbar /\ handleSendMedialKey
    \/ Live /\ cursorMode = "absolute" /\ absMouseRef = "null" /\ thr = NullThrottle
            /\ setCursorMode
    \/ Live /\ autoEnable
    \/ pointerLockExited
    \/ relativeMouseEvent /\ lastOp'.ay = 0 /\ lastOp'.ax \in {-MaxDelta, -1, 127}
    \/ relativeTimerFired
    \/ handleRelativeMouseWheel
    \/ absoluteMouseEvent /\ lastOp'.ev.w = 3 /\ lastOp'.ev.oy = 6
    \/ absoluteTrailingCall
    \/ absoluteWindowElapsed

SpecEmit == InitEmit /\ [][NextEmit]_vars

\* the frames read from a buffer, encoded again
RECURSIVE Encode(_)
Encode(frames) ==
    IF frames = <<>> THEN <<>>
    ELSE genPacket(Head(frames).cmd, Head(frames).payload).frame \o Encode(Tail(frames))

\* a buffer of whole frames: bytes in [0, 255], and reading it as frames gives
\* known commands, payloads genPacket accepts, and the same bytes when the
\* frames are encoded again (so header, length byte and checksum are right)
WellFormed(buf) ==
    /\ buf # <<>>
    /\ \A i \in DOMAIN buf : buf[i] \in 0..255
    /\ LET frames == ParseFrames(buf)
       IN  /\ \A k \in DOMAIN frames :
                 /\ frames[k].ok
                 /\ frames[k].cmd \in CmdType
                 /\ ~genPacket(frames[k].cmd, frames[k].payload).threw
           /\ Encode(frames) = buf

\* the operations that hand a buffer to the sink, the toolbar and the run included
SinkOps == EmittingOps \cup {"combo", "media", "macroStart", "macroTimer"}

\* C30: every buffer handed to the sink, by the live keyboard, a text send or
\* macro run, the combination and media keys, the wheel, the relative and the
\* absolute mouse, is a concatenation of whole frames with bytes in [0, 255],
\* the right length byte and checksum; no translator call makes genPacket
\* throw: a buffer written lacks no frame, the relative flush has one frame
\* per clamped step, and every buffer a run prepares is whole.
C30_EveryBufferWellFormed ==
    /\ (lastOp.op \in SinkOps /\ lastOp.wrote) => WellFormed(lastOp.out)
    /\ (lastOp.op \in SinkOps /\ ~lastOp.wrote) => lastOp.out = <<>>
    /\ lastOp.op \in {"combo", "media"} => ~lastOp.threw
    /\ (lastOp.op = "relmouse" /\ lastOp.wrote) =>
           Len(ParseFrames(lastOp.out)) = Len(lastOp.steps)
    /\ \A i \in DOMAIN macro.steps :
           macro.steps[i].kind = "key" => WellFormed(macro.steps[i].buf)

C30_Witness ==
    /\ lastOp.op = "media"
    /\ lastOp.key = "Mute"
    /\ lastOp.wrote
    /\ lastOp.out = <<87, 171, 0, 3, 4, 2, 4, 0, 0, 15, 87, 171, 0, 3, 4, 2, 0, 0, 0, 11>>
    /\ cursorMode = "relative"

====
